---- MODULE Spec2Model ----
(***************************************************************************)
(* The stock ledger (createOrder / cancelOrder), the order lifecycle and   *)
(* the category hierarchy guard of the e-commerce backend, as the          *)
(* controllers implement them against the document store.                  *)
(*                                                                         *)
(* One request is one action: a handler runs from its first store read to  *)
(* its response.  `last` records the request and its response, `before`    *)
(* the product collection as it stood when the request arrived.            *)
(*                                                                         *)
(* Where two requests are in flight at once, a handler runs in steps, one  *)
(* per awaited store call; `inflight` holds each request's position and    *)
(* the documents it has read.                                              *)
(***************************************************************************)
EXTENDS Integers, Sequences, FiniteSets, TLC

VARIABLES
  products,    \* Product collection: id -> [stock, variants, category, price, discount]
  orders,      \* Order collection, in creation order
  restored,    \* history: per order, how often cancelOrder ran its restore loop
  last,        \* the last request and its response
  before,      \* history: `products` when the last request arrived
  categories,  \* Category collection: id -> [parent]
  nextCategory,\* the number of category ids handed out so far
  users,       \* User collection: id -> [addresses, issued, wishlist]
  inflight,    \* the requests in flight: slot -> request, position, documents read
  reviews,     \* Review collection: a set of [user, product, rating, status]
  credential   \* the Authorization header the client sends with its requests

vars ==
  <<products, orders, restored, last, before, categories, nextCategory, users, inflight,
    reviews, credential>>

---------------------------------------------------------------------------
(* Bounds of the model *)

MaxStock == 2       \* initial stock counters are drawn from 0..MaxStock
MaxQty == 2         \* item quantities are drawn from 1..MaxQty
MaxItems == 2       \* an order request carries at most MaxItems items
MaxReleases == 2    \* restore loops explored per order
MaxCategories == 3  \* category ids handed out in one run
MaxAddresses == 3   \* addresses a user adds in one run
MaxPrice == 2       \* prices are drawn from 1..MaxPrice
MaxWishlist == 3    \* entries a wishlist holds in one run
MaxRating == 2      \* review ratings are drawn from 1..MaxRating

---------------------------------------------------------------------------
(* Values *)

\* parent: { default: null }
NoParent == 0
\* a request body field that is absent (`parent !== undefined`)
Undefined == -1
\* Order.status when the Order document is constructed without one
DefaultStatus == "pending"
OrderStatuses == {"pending", "processing", "delivered", "cancelled"}

\* req.user: _id and role
Users == {"alice", "bob", "root"}
Role(u) == IF u = "root" THEN "admin" ELSE "customer"
\* The user who places the order
Buyers == {"alice"}

\* The stored products; "p9" is an id that resolves to no product
ProductIds == {"p1", "p2"}

\* The stock counters of the catalog: <<product, variant>>, "" the product's own
\* counter (`item.variant && item.variant.name` is falsy)
Counters == {<<"p1", "">>, <<"p1", "Red">>, <<"p1", "Blue">>, <<"p2", "">>}

Item(p, v, q) == [product |-> p, variant |-> v, quantity |-> q]

\* The items a request may carry: any quantity against any counter, a variant
\* the product does not have, a product that does not exist
Items ==
  {Item(c[1], c[2], q) : c \in Counters, q \in 1..MaxQty}
    \cup {Item("p1", "Green", 1), Item("p9", "", 1)}

RECURSIVE SeqsUpTo(_, _)
SeqsUpTo(S, n) ==
  IF n = 0 THEN {<<>>}
  ELSE LET shorter == SeqsUpTo(S, n - 1)
       IN  shorter \cup {Append(s, x) : s \in {t \in shorter : Len(t) = n - 1}, x \in S}

ItemLists == SeqsUpTo(Items, MaxItems)

---------------------------------------------------------------------------
(* Product documents *)

Variant(n, s) == [name |-> n, stock |-> s]

\* product.variants.findIndex(v => v.name === name); 0 stands for -1
RECURSIVE FindFrom(_, _, _)
FindFrom(variants, name, i) ==
  IF i > Len(variants) THEN 0
  ELSE IF variants[i].name = name THEN i
  ELSE FindFrom(variants, name, i + 1)

FindVariant(variants, name) == FindFrom(variants, name, 1)

\* (mutant) the check without its stock comparisons
CheckItemNoStock(prods, item) ==
  IF item.product \notin DOMAIN prods THEN "ProductNotFound"
  ELSE IF item.variant # "" /\ FindVariant(prods[item.product].variants, item.variant) = 0
       THEN "VariantNotFound"
  ELSE "ok"

\* (mutant) a variant name the product does not have is not looked for: the item
\* is checked against the product's own stock
CheckItemNoVariantLookup(prods, item) ==
  IF item.product \notin DOMAIN prods THEN "ProductNotFound"
  ELSE LET product == prods[item.product]
           i == FindVariant(product.variants, item.variant)
       IN  IF item.variant # "" /\ i # 0
           THEN IF product.variants[i].stock < item.quantity
                THEN "InsufficientStock" ELSE "ok"
           ELSE IF product.stock < item.quantity THEN "InsufficientStock"
           ELSE "ok"

\* The first loop's body: the outcome of the availability check of one item
CheckItem(prods, item) ==
  IF item.product \notin DOMAIN prods THEN "ProductNotFound"
  ELSE LET product == prods[item.product]
       IN  IF item.variant # ""
           THEN LET i == FindVariant(product.variants, item.variant)
                IN  IF i = 0 THEN "VariantNotFound"
                    ELSE IF product.variants[i].stock < item.quantity
                         THEN "InsufficientStock"
                    ELSE "ok"
           ELSE IF product.stock < item.quantity THEN "InsufficientStock"
           ELSE "ok"

\* The first loop: the index of the first item that fails its check, 0 if none
FirstFailing(prods, items) ==
  LET bad == {i \in 1..Len(items) : CheckItem(prods, items[i]) # "ok"}
  IN  IF bad = {} THEN 0 ELSE CHOOSE i \in bad : \A j \in bad : i <= j

\* (mutant) an item that names a variant moves the product's own stock as well
AdjustBoth(prods, item, d) ==
  IF item.product \notin DOMAIN prods THEN prods
  ELSE LET product == prods[item.product]
       IN  IF item.variant # ""
           THEN LET i == FindVariant(product.variants, item.variant)
                IN  IF i = 0 THEN prods
                    ELSE [prods EXCEPT ![item.product].variants[i].stock = @ + d,
                                       ![item.product].stock = @ + d]
           ELSE [prods EXCEPT ![item.product].stock = @ + d]

\* One pass of a stock loop body: fetch, adjust the resolved counter by d, save
Adjust(prods, item, d) ==
  IF item.product \notin DOMAIN prods THEN prods
  ELSE LET product == prods[item.product]
       IN  IF item.variant # ""
           THEN LET i == FindVariant(product.variants, item.variant)
                IN  IF i = 0 THEN prods
                    ELSE [prods EXCEPT ![item.product].variants[i].stock = @ + d]
           ELSE [prods EXCEPT ![item.product].stock = @ + d]

\* createOrder's loop body: counter -= quantity
Debit(prods, item) == Adjust(prods, item, 0 - item.quantity)

\* (mutant) the restore credits the product's own stock whatever the item names
CreditProductStock(prods, item) ==
  IF item.product \notin DOMAIN prods THEN prods
  ELSE [prods EXCEPT ![item.product].stock = @ + item.quantity]

\* cancelOrder's loop body: counter += quantity
Credit(prods, item) == Adjust(prods, item, item.quantity)

\* (mutant) every item debits the product document as first fetched, so of
\* several items naming one product only the last save survives
StaleDebitAll(prods, items, i) ==
  [p \in DOMAIN prods |->
     LET js == {j \in i..Len(items) : items[j].product = p}
     IN  IF js = {} THEN prods[p]
         ELSE Debit(prods, items[CHOOSE j \in js : \A k \in js : k <= j])[p]]

\* The second loop of createOrder, item by item in the order supplied
RECURSIVE DebitAll(_, _, _)
DebitAll(prods, items, i) ==
  IF i > Len(items) THEN prods
  ELSE DebitAll(Debit(prods, items[i]), items, i + 1)

\* The restore loop of cancelOrder
RECURSIVE CreditAll(_, _, _)
CreditAll(prods, items, i) ==
  IF i > Len(items) THEN prods
  ELSE CreditAll(Credit(prods, items[i]), items, i + 1)

---------------------------------------------------------------------------
(* Requests and responses *)

Response(op, user, target, items, arg, parent, status, err) ==
  [op |-> op, user |-> user, target |-> target, items |-> items, arg |-> arg,
   parent |-> parent, status |-> status, err |-> err]

NoRequest == Response("none", "", 0, <<>>, "", Undefined, 0, "")

\* The status a failed availability check answers with
StatusOf(err) == IF err = "InsufficientStock" THEN 400 ELSE 404

CatalogUnchanged == UNCHANGED <<categories, nextCategory, users, inflight, reviews, credential>>

---------------------------------------------------------------------------
(* Order handlers *)

NewOrder(user, items) ==
  [user |-> user, items |-> items, status |-> DefaultStatus,
   isPaid |-> FALSE, isDelivered |-> FALSE]

\* POST /api/orders
createOrder(user, items) ==
  /\ before' = products
  /\ CatalogUnchanged
  /\ IF Len(items) = 0
     THEN /\ last' = Response("createOrder", user, 0, items, "", Undefined, 400, "NoItems")
          /\ UNCHANGED <<products, orders, restored>>
     ELSE LET f == FirstFailing(products, items)
          IN  IF f # 0
              THEN /\ last' = Response("createOrder", user, 0, items, "", Undefined,
                                       StatusOf(CheckItem(products, items[f])),
                                       CheckItem(products, items[f]))
                   /\ UNCHANGED <<products, orders, restored>>
              ELSE /\ orders' = Append(orders, NewOrder(user, items))
                   /\ restored' = Append(restored, 0)
                   /\ products' = DebitAll(products, items, 1)
                   /\ last' = Response("createOrder", user, Len(orders) + 1, items, "",
                                       Undefined, 201, "")

NotFoundOrder(op, user, o, arg) ==
  /\ o \notin DOMAIN orders
  /\ last' = Response(op, user, o, <<>>, arg, Undefined, 404, "OrderNotFound")
  /\ UNCHANGED <<products, orders, restored>>

\* PUT /api/orders/:id/pay
updateOrderToPaid(o) ==
  /\ before' = products
  /\ CatalogUnchanged
  /\ \/ NotFoundOrder("updateOrderToPaid", "", o, "")
     \/ /\ o \in DOMAIN orders
        /\ orders' = [orders EXCEPT ![o].isPaid = TRUE, ![o].status = "processing"]
        /\ last' = Response("updateOrderToPaid", "", o, <<>>, "", Undefined, 200, "")
        /\ UNCHANGED <<products, restored>>

\* PUT /api/orders/:id/deliver
updateOrderToDelivered(o) ==
  /\ before' = products
  /\ CatalogUnchanged
  /\ \/ NotFoundOrder("updateOrderToDelivered", "", o, "")
     \/ /\ o \in DOMAIN orders
        /\ orders' = [orders EXCEPT ![o].isDelivered = TRUE, ![o].status = "delivered"]
        /\ last' = Response("updateOrderToDelivered", "", o, <<>>, "", Undefined, 200, "")
        /\ UNCHANGED <<products, restored>>

\* PUT /api/orders/:id/status; status "" is a body without status
updateOrderStatus(o, status) ==
  /\ before' = products
  /\ CatalogUnchanged
  /\ \/ NotFoundOrder("updateOrderStatus", "", o, status)
     \/ /\ o \in DOMAIN orders
        /\ orders' = [orders EXCEPT
                        ![o].status = IF status # "" THEN status ELSE @,
                        ![o].isDelivered = IF status = "delivered" THEN TRUE ELSE @]
        /\ last' = Response("updateOrderStatus", "", o, <<>>, status, Undefined, 200, "")
        /\ UNCHANGED <<products, restored>>

\* (mutant) only an order already cancelled is past cancelling
CancellableUnlessCancelled(status) == status # "cancelled"

\* The stage check of cancelOrder
Cancellable(status) == status = "pending" \/ status = "processing"

\* (mutant) any signed-in user may cancel
MayCancelAnyone(order, user) == TRUE

\* The owner-or-admin check of cancelOrder
MayCancel(order, user) == order.user = user \/ Role(user) = "admin"

\* PUT /api/orders/:id/cancel
cancelOrder(o, user) ==
  /\ before' = products
  /\ CatalogUnchanged
  /\ \/ NotFoundOrder("cancelOrder", user, o, "")
     \/ /\ o \in DOMAIN orders
        /\ IF ~Cancellable(orders[o].status)
           THEN /\ last' = Response("cancelOrder", user, o, <<>>, "", Undefined, 400, "NotCancellable")
                /\ UNCHANGED <<products, orders, restored>>
           ELSE IF ~MayCancel(orders[o], user)
           THEN /\ last' = Response("cancelOrder", user, o, <<>>, "", Undefined, 403, "NotAuthorized")
                /\ UNCHANGED <<products, orders, restored>>
           ELSE /\ restored[o] < MaxReleases
                /\ products' = CreditAll(products, orders[o].items, 1)
                /\ orders' = [orders EXCEPT ![o].status = "cancelled"]
                /\ restored' = [restored EXCEPT ![o] = @ + 1]
                /\ last' = Response("cancelOrder", user, o, <<>>, "", Undefined, 200, "")

---------------------------------------------------------------------------
(* Specifications of the order service *)

\* A rating is the exact average num / den; rating: { default: 0 }
NoRating == [num |-> 0, den |-> 1]

Catalog(s1, r1, s2) ==
  [p \in ProductIds |->
     IF p = "p1"
     THEN [stock |-> s1, variants |-> <<Variant("Red", r1), Variant("Blue", 1)>>,
           category |-> 2, price |-> 1, discount |-> 0,
           rating |-> NoRating, numReviews |-> 0]
     ELSE [stock |-> s2, variants |-> <<>>, category |-> 1, price |-> 1, discount |-> 0,
           rating |-> NoRating, numReviews |-> 0]]

InitCategories ==
  /\ categories = [c \in 1..2 |-> [parent |-> c - 1]]
  /\ nextCategory = 2

\* Every user starts with no address
NoAddresses == [u \in Buyers |-> [addresses |-> <<>>, issued |-> 0, wishlist |-> <<>>]]

\* A request without an Authorization header, and one with `Bearer <token>`
NoHeader == [scheme |-> "", token |-> ""]

Bearer(token) == [scheme |-> "Bearer", token |-> token]

\* A slot of `inflight`: the request (op, user, target, items, parent), where it
\* stands (pc, item index i, walk cursor cur), the product document it fetched
\* last (doc) and, once it is done, its response (status, err)
Flight(op, user, target, items, parent, pc, i, cur, doc, status, err) ==
  [op |-> op, user |-> user, target |-> target, items |-> items, parent |-> parent,
   pc |-> pc, i |-> i, cur |-> cur, doc |-> doc, status |-> status, err |-> err]

NoDoc ==
  [stock |-> 0, variants |-> <<>>, category |-> NoParent, price |-> 0, discount |-> 0,
   rating |-> NoRating, numReviews |-> 0]

Idle == Flight("none", "", 0, <<>>, Undefined, "idle", 0, NoParent, NoDoc, 0, "")

Slots == {"A", "B"}

NoneInFlight == [r \in Slots |-> Idle]

InitRest ==
  /\ orders = <<>>
  /\ restored = <<>>
  /\ last = NoRequest
  /\ before = products
  /\ InitCategories
  /\ users = NoAddresses
  /\ reviews = {}
  /\ credential = NoHeader
  /\ inflight = NoneInFlight

\* The seeded store.  A run of the order service follows one order: its first
\* request is the createOrder that places it (or fails to).
Init ==
  /\ products = Catalog(MaxStock, 1, 1)
  /\ InitRest

OrderIds == 1..2

Next ==
  \/ last = NoRequest /\ \E u \in Buyers, items \in ItemLists : createOrder(u, items)
  \/ \E o \in OrderIds : updateOrderToPaid(o)
  \/ \E o \in OrderIds : updateOrderToDelivered(o)
  \/ \E o \in OrderIds, s \in OrderStatuses \cup {""} : updateOrderStatus(o, s)
  \/ \E o \in OrderIds, u \in Users : cancelOrder(o, u)

Spec == Init /\ [][Next]_vars

\* The stock ledger alone, from every stocking of p1 and of its variant Red
InitLedger ==
  /\ \E s1 \in 0..MaxStock, r1 \in 0..MaxStock : products = Catalog(s1, r1, 1)
  /\ InitRest

NextLedger ==
  \/ last = NoRequest /\ \E u \in Buyers, items \in ItemLists : createOrder(u, items)
  \/ \E o \in OrderIds, u \in Users : cancelOrder(o, u)

SpecLedger == InitLedger /\ [][NextLedger]_vars

---------------------------------------------------------------------------
(* Category handlers *)

\* An id that names no category, stored or removed
GhostCategory == MaxCategories + 1

\* The ids a request may name: every id handed out so far (the store hands out
\* fresh ids and never one again) and one that resolves to nothing
KnownCategoryIds == (1..nextCategory) \cup {GhostCategory}

\* req.body.parent: absent, null or an id
ParentInputs == {Undefined, NoParent} \cup KnownCategoryIds

\* `if (parent)`: the body names a parent
Truthy(parent) == parent # Undefined /\ parent # NoParent

\* Category.findById(id), then `.parent`; null when the id does not resolve
ParentOf(cats, id) == IF id \in DOMAIN cats THEN cats[id].parent ELSE NoParent

\* POST /api/categories
createCategory(parent) ==
  /\ nextCategory < MaxCategories
  /\ nextCategory' = nextCategory + 1
  /\ categories' =
       [c \in DOMAIN categories \cup {nextCategory + 1} |->
          IF c \in DOMAIN categories THEN categories[c]
          ELSE [parent |-> IF Truthy(parent) THEN parent ELSE NoParent]]
  /\ last' = Response("createCategory", "", nextCategory + 1, <<>>, "", parent, 201, "")
  /\ before' = products
  /\ UNCHANGED <<products, orders, restored, users, inflight, reviews, credential>>

\* (mutant) no self-parent check
NeverSelfParent(parent, id) == FALSE

\* `parent && parent.toString() === category._id.toString()`
IsSelfParent(parent, id) == Truthy(parent) /\ parent = id

\* The while loop of updateCategory from parentId on: "cycle" when it meets id,
\* "ok" when it runs out of parents, "diverges" when it comes back to a node it
\* has left without having met id (it then goes round for ever)
RECURSIVE Walk(_, _, _, _)
Walk(cats, parentId, id, seen) ==
  IF parentId = NoParent THEN "ok"
  ELSE IF parentId = id THEN "cycle"
  ELSE IF parentId \in seen THEN "diverges"
  ELSE Walk(cats, ParentOf(cats, parentId), id, seen \cup {parentId})

\* (mutant) only the proposed parent's own parent is compared with the category
CircularCheckOneLevel(cats, parent, id) ==
  IF ParentOf(cats, parent) = id THEN "cycle" ELSE "ok"

\* (mutant) a parent chain that ends at an id that does not resolve is refused
CircularCheckStrict(cats, parent, id) ==
  IF parent \notin DOMAIN cats THEN "cycle"
  ELSE Walk(cats, ParentOf(cats, parent), id, {})

\* "Check for circular references": the walk starts at the proposed parent's parent
CircularCheck(cats, parent, id) == Walk(cats, ParentOf(cats, parent), id, {})

\* PUT /api/categories/:id
updateCategory(id, parent) ==
  /\ before' = products
  /\ UNCHANGED <<products, orders, restored, nextCategory, users, inflight, reviews,
               credential>>
  /\ IF id \notin DOMAIN categories
     THEN /\ last' = Response("updateCategory", "", id, <<>>, "", parent, 404, "CategoryNotFound")
          /\ UNCHANGED categories
     ELSE IF IsSelfParent(parent, id)
     THEN /\ last' = Response("updateCategory", "", id, <<>>, "", parent, 400, "SelfParent")
          /\ UNCHANGED categories
     ELSE IF Truthy(parent) /\ CircularCheck(categories, parent, id) = "cycle"
     THEN /\ last' = Response("updateCategory", "", id, <<>>, "", parent, 400, "Circular")
          /\ UNCHANGED categories
     ELSE IF Truthy(parent) /\ CircularCheck(categories, parent, id) = "diverges"
     THEN /\ last' = Response("updateCategory", "", id, <<>>, "", parent, 0, "NoResponse")
          /\ UNCHANGED categories
     ELSE /\ categories' = [categories EXCEPT ![id].parent =
                              IF parent # Undefined THEN parent ELSE @]
          /\ last' = Response("updateCategory", "", id, <<>>, "", parent, 200, "")

\* Category.exists({ parent: category._id })
HasSubcategories(cats, id) == \E c \in DOMAIN cats : cats[c].parent = id

\* (mutant) no product check
NoProductCheck(prods, id) == FALSE

\* Product.exists({ category: category._id })
HasProducts(prods, id) == \E p \in DOMAIN prods : prods[p].category = id

\* DELETE /api/categories/:id
deleteCategory(id) ==
  /\ before' = products
  /\ UNCHANGED <<products, orders, restored, nextCategory, users, inflight, reviews,
               credential>>
  /\ IF id \notin DOMAIN categories
     THEN /\ last' = Response("deleteCategory", "", id, <<>>, "", Undefined, 404, "CategoryNotFound")
          /\ UNCHANGED categories
     ELSE IF HasSubcategories(categories, id)
     THEN /\ last' = Response("deleteCategory", "", id, <<>>, "", Undefined, 400, "HasChildren")
          /\ UNCHANGED categories
     ELSE IF HasProducts(products, id)
     THEN /\ last' = Response("deleteCategory", "", id, <<>>, "", Undefined, 400, "HasProducts")
          /\ UNCHANGED categories
     ELSE /\ categories' = [c \in DOMAIN categories \ {id} |-> categories[c]]
          /\ last' = Response("deleteCategory", "", id, <<>>, "", Undefined, 200, "")

\* The category service from the seeded tree 1 <- 2 (2's parent is 1)
NextCategory ==
  \/ \E parent \in ParentInputs : createCategory(parent)
  \/ \E id \in KnownCategoryIds, parent \in ParentInputs : updateCategory(id, parent)
  \/ \E id \in KnownCategoryIds : deleteCategory(id)

SpecCategory == Init /\ [][NextCategory]_vars

---------------------------------------------------------------------------
(* The handlers in steps: one step runs a request from one awaited store call to *)
(* the next.  A fetched document is the request's own copy; save() writes the     *)
(* paths the request has modified on its copy.                                    *)

CreateRequest(user, items) ==
  Flight("createOrder", user, 0, items, Undefined, "check", 1, NoParent, NoDoc, 0, "")

CancelRequest(o, user) ==
  Flight("cancelOrder", user, o, <<>>, Undefined, "load", 1, NoParent, NoDoc, 0, "")

UpdateCategoryRequest(id, parent) ==
  Flight("updateCategory", "", id, <<>>, parent, "load", 0, NoParent, NoDoc, 0, "")

\* The request answers (res.status(...) and a thrown Error, or res.json)
Done(f, status, err) == [f EXCEPT !.pc = "done", !.status = status, !.err = err]

At(r, op, pc) == inflight[r].op = op /\ inflight[r].pc = pc

\* The step of request r leaves it as f
Becomes(r, f) ==
  /\ inflight' = [inflight EXCEPT ![r] = f]
  /\ UNCHANGED <<last, before, users, reviews, credential>>

\* product.save() after the loop body moved, on the copy `doc`, the counter the
\* item names by d: the store gets that counter's new value
WriteBack(prods, doc, item, d) ==
  IF item.product \notin DOMAIN prods THEN prods
  ELSE IF item.variant # ""
       THEN LET i == FindVariant(doc.variants, item.variant)
            IN  IF i = 0 \/ i > Len(prods[item.product].variants) THEN prods
                ELSE [prods EXCEPT ![item.product].variants[i].stock =
                                      doc.variants[i].stock + d]
       ELSE [prods EXCEPT ![item.product].stock = doc.stock + d]

\* The next position of a stock loop after item i: the next item's fetch, or `after`
NextItem(f, after) ==
  IF f.i < Len(f.items) THEN [f EXCEPT !.pc = "fetch", !.i = @ + 1]
  ELSE after

\* (mutant) the whole list is validated at once, stock shortages reported first
createOrderCheckStockFirst(r) ==
  /\ At(r, "createOrder", "check")
  /\ UNCHANGED <<products, orders, restored, categories, nextCategory>>
  /\ LET f == inflight[r]
         short == {i \in DOMAIN f.items : CheckItem(products, f.items[i]) = "InsufficientStock"}
         k == FirstFailing(products, f.items)
     IN  IF Len(f.items) = 0 THEN Becomes(r, Done(f, 400, "NoItems"))
         ELSE IF short # {} THEN Becomes(r, Done(f, 400, "InsufficientStock"))
         ELSE IF k # 0
         THEN Becomes(r, Done(f, 404, CheckItem(products, f.items[k])))
         ELSE Becomes(r, [f EXCEPT !.pc = "saveOrder"])

\* createOrder, first loop: Product.findById of item i and its checks
createOrderCheck(r) ==
  /\ At(r, "createOrder", "check")
  /\ UNCHANGED <<products, orders, restored, categories, nextCategory>>
  /\ LET f == inflight[r]
     IN  IF Len(f.items) = 0 THEN Becomes(r, Done(f, 400, "NoItems"))
         ELSE LET c == CheckItem(products, f.items[f.i])
              IN  IF c # "ok" THEN Becomes(r, Done(f, StatusOf(c), c))
                  ELSE IF f.i < Len(f.items) THEN Becomes(r, [f EXCEPT !.i = @ + 1])
                  ELSE Becomes(r, [f EXCEPT !.pc = "saveOrder"])

\* createOrder: order.save()
createOrderPersist(r) ==
  /\ At(r, "createOrder", "saveOrder")
  /\ UNCHANGED <<products, categories, nextCategory>>
  /\ orders' = Append(orders, NewOrder(inflight[r].user, inflight[r].items))
  /\ restored' = Append(restored, 0)
  /\ Becomes(r, [inflight[r] EXCEPT !.pc = "fetch", !.i = 1, !.target = Len(orders) + 1])

\* createOrder, second loop: Product.findById of item i
createOrderFetch(r) ==
  /\ At(r, "createOrder", "fetch")
  /\ UNCHANGED <<products, orders, restored, categories, nextCategory>>
  /\ LET f == inflight[r]
         p == f.items[f.i].product
     IN  IF p \in DOMAIN products
         THEN Becomes(r, [f EXCEPT !.pc = "save", !.doc = products[p]])
         ELSE Becomes(r, Done(f, 500, "TypeError"))

\* (mutant) the save is refused when the stored product is no longer the one read
createOrderSaveVersioned(r) ==
  /\ At(r, "createOrder", "save")
  /\ UNCHANGED <<orders, restored, categories, nextCategory>>
  /\ LET f == inflight[r]
         item == f.items[f.i]
     IN  IF products[item.product] # f.doc
         THEN UNCHANGED products /\ Becomes(r, Done(f, 500, "VersionError"))
         ELSE /\ products' = WriteBack(products, f.doc, item, 0 - item.quantity)
              /\ Becomes(r, NextItem(f, Done(f, 201, "")))

\* createOrder, second loop: counter -= quantity on the copy, product.save();
\* after the last item, res.status(201)
createOrderSave(r) ==
  /\ At(r, "createOrder", "save")
  /\ UNCHANGED <<orders, restored, categories, nextCategory>>
  /\ LET f == inflight[r]
         item == f.items[f.i]
     IN  /\ products' = WriteBack(products, f.doc, item, 0 - item.quantity)
         /\ Becomes(r, NextItem(f, Done(f, 201, "")))

\* (mutant) a failed save undoes the request: the debits made so far and the order
createOrderSaveFailsUndoing(r) ==
  /\ At(r, "createOrder", "save")
  /\ UNCHANGED <<categories, nextCategory>>
  /\ products' = before
  /\ orders' = SubSeq(orders, 1, Len(orders) - 1)
  /\ restored' = SubSeq(restored, 1, Len(restored) - 1)
  /\ Becomes(r, Done(inflight[r], 500, "SaveFailed"))

\* createOrder, second loop: product.save() rejects; the error leaves the handler
createOrderSaveFails(r) ==
  /\ At(r, "createOrder", "save")
  /\ UNCHANGED <<products, orders, restored, categories, nextCategory>>
  /\ Becomes(r, Done(inflight[r], 500, "SaveFailed"))

\* cancelOrder: Order.findById, the checks, order.status = 'cancelled' on the copy
cancelOrderLoad(r) ==
  /\ At(r, "cancelOrder", "load")
  /\ UNCHANGED <<products, orders, categories, nextCategory>>
  /\ LET f == inflight[r]
         o == f.target
     IN  IF o \notin DOMAIN orders
         THEN UNCHANGED restored /\ Becomes(r, Done(f, 404, "OrderNotFound"))
         ELSE IF ~Cancellable(orders[o].status)
         THEN UNCHANGED restored /\ Becomes(r, Done(f, 400, "NotCancellable"))
         ELSE IF ~MayCancel(orders[o], f.user)
         THEN UNCHANGED restored /\ Becomes(r, Done(f, 403, "NotAuthorized"))
         ELSE /\ restored' = [restored EXCEPT ![o] = @ + 1]
              /\ Becomes(r, [f EXCEPT !.items = orders[o].items, !.i = 1,
                                      !.pc = IF orders[o].items = <<>> THEN "saveOrder"
                                             ELSE "fetch"])

\* cancelOrder, restore loop: Product.findById of item i; `if (product)`
cancelOrderFetch(r) ==
  /\ At(r, "cancelOrder", "fetch")
  /\ UNCHANGED <<products, orders, restored, categories, nextCategory>>
  /\ LET f == inflight[r]
         p == f.items[f.i].product
     IN  IF p \in DOMAIN products
         THEN Becomes(r, [f EXCEPT !.pc = "save", !.doc = products[p]])
         ELSE Becomes(r, NextItem(f, [f EXCEPT !.pc = "saveOrder"]))

\* cancelOrder, restore loop: counter += quantity on the copy, product.save()
cancelOrderSave(r) ==
  /\ At(r, "cancelOrder", "save")
  /\ UNCHANGED <<orders, restored, categories, nextCategory>>
  /\ LET f == inflight[r]
         item == f.items[f.i]
     IN  /\ products' = WriteBack(products, f.doc, item, item.quantity)
         /\ Becomes(r, NextItem(f, [f EXCEPT !.pc = "saveOrder"]))

\* cancelOrder: order.save(), res.json
cancelOrderPersist(r) ==
  /\ At(r, "cancelOrder", "saveOrder")
  /\ UNCHANGED <<products, restored, categories, nextCategory>>
  /\ orders' = [orders EXCEPT ![inflight[r].target].status = "cancelled"]
  /\ Becomes(r, Done(inflight[r], 200, ""))

\* updateCategory: Category.findById(req.params.id) and the own-parent check
updateCategoryLoad(r) ==
  /\ At(r, "updateCategory", "load")
  /\ UNCHANGED <<products, orders, restored, categories, nextCategory>>
  /\ LET f == inflight[r]
     IN  IF f.target \notin DOMAIN categories
         THEN Becomes(r, Done(f, 404, "CategoryNotFound"))
         ELSE IF IsSelfParent(f.parent, f.target)
         THEN Becomes(r, Done(f, 400, "SelfParent"))
         ELSE IF Truthy(f.parent)
         THEN Becomes(r, [f EXCEPT !.pc = "walk", !.cur = f.parent,
                                   !.doc = categories[f.target]])
         ELSE Becomes(r, [f EXCEPT !.pc = "save", !.doc = categories[f.target]])

\* The lookups of a walk are counted in the request's `i`, up to MaxLookups
MaxLookups == MaxCategories + 2

Looked(f) == [f EXCEPT !.i = IF @ < MaxLookups THEN @ + 1 ELSE @]

\* (mutant) every lookup is of the proposed parent: the walk does not move up
updateCategoryWalkInPlace(r) ==
  /\ At(r, "updateCategory", "walk")
  /\ UNCHANGED <<products, orders, restored, categories, nextCategory>>
  /\ LET f == Looked(inflight[r])
         parentId == ParentOf(categories, f.parent)
     IN  IF parentId = NoParent THEN Becomes(r, [f EXCEPT !.pc = "save"])
         ELSE IF parentId = f.target THEN Becomes(r, Done(f, 400, "Circular"))
         ELSE Becomes(r, f)

\* updateCategory: Category.findById(cur), parentId = its parent, the loop test
\* and the comparison with the category's id
updateCategoryWalk(r) ==
  /\ At(r, "updateCategory", "walk")
  /\ UNCHANGED <<products, orders, restored, categories, nextCategory>>
  /\ LET f == Looked(inflight[r])
         parentId == ParentOf(categories, f.cur)
     IN  IF parentId = NoParent THEN Becomes(r, [f EXCEPT !.pc = "save"])
         ELSE IF parentId = f.target THEN Becomes(r, Done(f, 400, "Circular"))
         ELSE Becomes(r, [f EXCEPT !.cur = parentId])

\* updateCategory: the assignment of parent on the copy, category.save(), res.json
updateCategorySave(r) ==
  /\ At(r, "updateCategory", "save")
  /\ UNCHANGED <<products, orders, restored, nextCategory>>
  /\ LET f == inflight[r]
     IN  /\ categories' =
               IF f.parent # Undefined /\ f.parent # f.doc.parent
                  /\ f.target \in DOMAIN categories
               THEN [categories EXCEPT ![f.target].parent = f.parent]
               ELSE categories
         /\ Becomes(r, Done(f, 200, ""))

\* What a specification of requests in flight starts from, apart from the
\* products, the orders and the requests
InitElsewhere ==
  /\ before = products
  /\ InitCategories
  /\ users = NoAddresses
  /\ reviews = {}
  /\ credential = NoHeader

\* Two createOrder requests, of one item each, arrive at the seeded store
InitCreateRace ==
  /\ products = Catalog(MaxStock, 1, 1)
  /\ orders = <<>> /\ restored = <<>> /\ last = NoRequest
  /\ InitElsewhere
  /\ \E a \in Items, b \in Items :
        inflight = [r \in Slots |-> CreateRequest("alice", IF r = "A" THEN <<a>> ELSE <<b>>)]

NextCreateRace ==
  \/ \E r \in Slots : createOrderCheck(r)
  \/ \E r \in Slots : createOrderPersist(r)
  \/ \E r \in Slots : createOrderFetch(r)
  \/ \E r \in Slots : createOrderSave(r)

SpecCreateRace == InitCreateRace /\ [][NextCreateRace]_vars

\* One createOrder request arrives at the seeded store; a save of its second
\* loop may fail
InitFault ==
  /\ products = Catalog(MaxStock, 1, 1)
  /\ orders = <<>> /\ restored = <<>> /\ last = NoRequest
  /\ InitElsewhere
  /\ \E items \in ItemLists :
        inflight = [r \in Slots |-> IF r = "A" THEN CreateRequest("alice", items) ELSE Idle]

NextFault ==
  \/ \E r \in Slots : createOrderCheck(r)
  \/ \E r \in Slots : createOrderPersist(r)
  \/ \E r \in Slots : createOrderFetch(r)
  \/ \E r \in Slots : createOrderSave(r)
  \/ \E r \in Slots : createOrderSaveFails(r)

SpecFault == InitFault /\ [][NextFault]_vars

\* Two cancelOrder requests arrive at a store that holds one order, just placed
InitCancelRace ==
  /\ \E items \in ItemLists :
        /\ Len(items) > 0
        /\ FirstFailing(Catalog(MaxStock, 1, 1), items) = 0
        /\ products = DebitAll(Catalog(MaxStock, 1, 1), items, 1)
        /\ orders = <<NewOrder("alice", items)>>
        /\ last = Response("createOrder", "alice", 1, items, "", Undefined, 201, "")
  /\ restored = <<0>>
  /\ InitElsewhere
  /\ \E a \in Users, b \in Users :
        inflight = [r \in Slots |-> CancelRequest(1, IF r = "A" THEN a ELSE b)]

NextCancelRace ==
  \/ \E r \in Slots : cancelOrderLoad(r)
  \/ \E r \in Slots : cancelOrderFetch(r)
  \/ \E r \in Slots : cancelOrderSave(r)
  \/ \E r \in Slots : cancelOrderPersist(r)

SpecCancelRace == InitCancelRace /\ [][NextCancelRace]_vars

\* Two updateCategory requests arrive at the store after a third category has
\* been created without parent: 1 <- 2, and 3 on its own
InitCategoryRace ==
  /\ products = Catalog(MaxStock, 1, 1)
  /\ orders = <<>> /\ restored = <<>> /\ last = NoRequest
  /\ before = products
  /\ users = NoAddresses
  /\ reviews = {}
  /\ credential = NoHeader
  /\ categories = [c \in 1..MaxCategories |-> [parent |-> IF c = 2 THEN 1 ELSE NoParent]]
  /\ nextCategory = MaxCategories
  /\ \E a \in 1..MaxCategories, pa \in {Undefined, NoParent} \cup (1..MaxCategories),
        b \in 1..MaxCategories, pb \in {Undefined, NoParent} \cup (1..MaxCategories) :
        inflight = [r \in Slots |-> IF r = "A" THEN UpdateCategoryRequest(a, pa)
                                    ELSE UpdateCategoryRequest(b, pb)]

NextCategoryRace ==
  \/ \E r \in Slots : updateCategoryLoad(r)
  \/ \E r \in Slots : updateCategoryWalk(r)
  \/ \E r \in Slots : updateCategorySave(r)

SpecCategoryRace == InitCategoryRace /\ [][NextCategoryRace]_vars

\* The parent graphs the store can hold over MaxCategories categories: a parent
\* is null, another category or an id that does not resolve (C24); cycles among
\* several categories are what overlapping requests can leave (C20)
ParentGraphs ==
  {g \in [1..MaxCategories ->
            [parent : {NoParent} \cup (1..MaxCategories) \cup {GhostCategory}]] :
     \A c \in 1..MaxCategories : g[c].parent # c}

\* One updateCategory request arrives at a store holding any such graph
InitWalk ==
  /\ products = Catalog(MaxStock, 1, 1)
  /\ orders = <<>> /\ restored = <<>> /\ last = NoRequest
  /\ before = products
  /\ users = NoAddresses
  /\ reviews = {}
  /\ credential = NoHeader
  /\ categories \in ParentGraphs
  /\ nextCategory = MaxCategories
  /\ \E id \in (1..MaxCategories) \cup {GhostCategory},
        parent \in {Undefined, NoParent} \cup (1..MaxCategories) \cup {GhostCategory} :
        inflight = [r \in Slots |-> IF r = "A" THEN UpdateCategoryRequest(id, parent)
                                    ELSE Idle]

NextWalk ==
  \/ \E r \in Slots : updateCategoryLoad(r)
  \/ \E r \in Slots : updateCategoryWalk(r)
  \/ \E r \in Slots : updateCategorySave(r)

\* The request is served: a step it can take is taken
SpecWalk == InitWalk /\ [][NextWalk]_vars /\ WF_vars(NextWalk)

---------------------------------------------------------------------------
(* Product handlers *)

\* An order item with the unit price the request states for it
Priced(item, price) ==
  [product |-> item.product, variant |-> item.variant, quantity |-> item.quantity,
   price |-> price]

PricedLists == {<<Priced(item, price)>> : item \in Items, price \in 1..MaxPrice}

\* req.body of updateProduct: a field is Undefined when the body does not have
\* it; variants is <<>> when absent and <<vs>> when the body has the array vs
ProductBodies ==
  [category : {Undefined, 1}, price : {Undefined, MaxPrice},
   discount : {Undefined, 10}, stock : {Undefined, 0},
   variants : {<<>>, << <<Variant("Red", 1)>> >>}]

\* The assignments of updateProduct to the fetched document
Updated(product, body) ==
  [product EXCEPT
     !.category = IF body.category # Undefined THEN body.category ELSE @,
     !.price = IF body.price # Undefined THEN body.price ELSE @,
     !.discount = IF body.discount # Undefined THEN body.discount ELSE @,
     !.stock = IF body.stock # Undefined THEN body.stock ELSE @,
     !.variants = IF body.variants # <<>> THEN body.variants[1] ELSE @]

ProductFrame ==
  /\ before' = products
  /\ UNCHANGED <<restored, categories, nextCategory, users, inflight, reviews, credential>>

\* (mutant) a new price is written into the stored orders' items of the product
updateProductRepricing(id, body) ==
  /\ ProductFrame
  /\ id \in DOMAIN products
  /\ products' = [products EXCEPT ![id] = Updated(@, body)]
  /\ orders' = [o \in DOMAIN orders |->
                  [orders[o] EXCEPT !.items =
                     [i \in DOMAIN @ |->
                        IF @[i].product = id /\ body.price # Undefined
                        THEN [@[i] EXCEPT !.price = body.price] ELSE @[i]]]]
  /\ last' = Response("updateProduct", "", 0, <<>>, id, Undefined, 200, "")

\* PUT /api/products/:id
updateProduct(id, body) ==
  /\ ProductFrame
  /\ UNCHANGED orders
  /\ IF id \in DOMAIN products
     THEN /\ products' = [products EXCEPT ![id] = Updated(@, body)]
          /\ last' = Response("updateProduct", "", 0, <<>>, id, Undefined, 200, "")
     ELSE /\ last' = Response("updateProduct", "", 0, <<>>, id, Undefined, 404,
                              "ProductNotFound")
          /\ UNCHANGED products

\* DELETE /api/products/:id
deleteProduct(id) ==
  /\ ProductFrame
  /\ UNCHANGED orders
  /\ IF id \in DOMAIN products
     THEN /\ products' = [p \in DOMAIN products \ {id} |-> products[p]]
          /\ last' = Response("deleteProduct", "", 0, <<>>, id, Undefined, 200, "")
     ELSE /\ last' = Response("deleteProduct", "", 0, <<>>, id, Undefined, 404,
                              "ProductNotFound")
          /\ UNCHANGED products

\* req.params.id of the product routes: the product being edited, and an id that
\* resolves to no product
ProductParams == {"p1", "p9"}

\* The catalog being edited after one order has been placed (or refused)
NextCatalog ==
  \/ last = NoRequest /\ \E u \in Buyers, items \in PricedLists : createOrder(u, items)
  \/ \E id \in ProductParams, body \in ProductBodies : updateProduct(id, body)
  \/ \E id \in ProductParams : deleteProduct(id)

SpecCatalog == Init /\ [][NextCatalog]_vars

---------------------------------------------------------------------------
(* Address handlers *)

\* req.body.isDefault: absent, true, false, or the string 'false'
FlagInputs == {"absent", "true", "false", "'false'"}

\* `if (isDefault)`: a non-empty string is truthy
TruthyFlag(flag) == flag \in {"true", "'false'"}

\* isDefault: { type: Boolean }: what the schema stores for a value assigned to
\* the path (the string 'false' is cast to false)
CastBoolean(flag) == flag = "true"

Address(id, isDefault) == [id |-> id, isDefault |-> isDefault]

\* user.addresses.forEach(addr => { addr.isDefault = false })
ClearDefaults(addresses) ==
  [i \in DOMAIN addresses |-> [addresses[i] EXCEPT !.isDefault = FALSE]]

\* user.addresses.findIndex(a => a._id.toString() === id); 0 stands for -1
RECURSIVE FindAddressFrom(_, _, _)
FindAddressFrom(addresses, id, i) ==
  IF i > Len(addresses) THEN 0
  ELSE IF addresses[i].id = id THEN i
  ELSE FindAddressFrom(addresses, id, i + 1)

FindAddress(addresses, id) == FindAddressFrom(addresses, id, 1)

\* "make the first address default" when the list is not empty
FirstDefault(addresses) ==
  IF Len(addresses) > 0 THEN [addresses EXCEPT ![1].isDefault = TRUE] ELSE addresses

UserFrame ==
  /\ before' = products
  /\ UNCHANGED <<products, orders, restored, categories, nextCategory, inflight, reviews,
               credential>>

\* POST /api/users/address
addUserAddress(u, flag) ==
  /\ UserFrame
  /\ users[u].issued < MaxAddresses
  /\ LET isDefault == IF TruthyFlag(flag) THEN flag ELSE "false"
         others == IF TruthyFlag(isDefault) THEN ClearDefaults(users[u].addresses)
                   ELSE users[u].addresses
         pushed == Append(others, Address(users[u].issued + 1, CastBoolean(isDefault)))
     IN  /\ users' = [users EXCEPT
                        ![u].addresses = IF Len(pushed) = 1 THEN FirstDefault(pushed)
                                         ELSE pushed,
                        ![u].issued = @ + 1]
         /\ last' = Response("addUserAddress", u, users[u].issued + 1, <<>>, flag,
                             Undefined, 201, "")

\* PUT /api/users/address/:id
updateUserAddress(u, id, flag) ==
  /\ UserFrame
  /\ LET addresses == users[u].addresses
         addressIndex == FindAddress(addresses, id)
     IN  IF addressIndex = 0
         THEN /\ last' = Response("updateUserAddress", u, id, <<>>, flag, Undefined,
                                  404, "AddressNotFound")
              /\ UNCHANGED users
         ELSE /\ last' = Response("updateUserAddress", u, id, <<>>, flag, Undefined, 200, "")
              /\ users' = [users EXCEPT ![u].addresses =
                   IF flag = "absent" THEN addresses
                   ELSE IF TruthyFlag(flag)
                   THEN [i \in DOMAIN addresses |->
                           [addresses[i] EXCEPT !.isDefault = (i = addressIndex)]]
                   ELSE LET unset == [addresses EXCEPT
                                        ![addressIndex].isDefault = CastBoolean(flag)]
                        IN  IF \E i \in DOMAIN unset : unset[i].isDefault THEN unset
                            ELSE FirstDefault(unset)]

\* address.remove()
Without(addresses, k) ==
  [i \in 1..(Len(addresses) - 1) |-> IF i < k THEN addresses[i] ELSE addresses[i + 1]]

\* DELETE /api/users/address/:id
deleteUserAddress(u, id) ==
  /\ UserFrame
  /\ LET addresses == users[u].addresses
         k == FindAddress(addresses, id)
     IN  IF k = 0
         THEN /\ last' = Response("deleteUserAddress", u, id, <<>>, "", Undefined,
                                  404, "AddressNotFound")
              /\ UNCHANGED users
         ELSE /\ last' = Response("deleteUserAddress", u, id, <<>>, "", Undefined, 200, "")
              /\ users' = [users EXCEPT ![u].addresses =
                   IF addresses[k].isDefault THEN FirstDefault(Without(addresses, k))
                   ELSE Without(addresses, k)]

\* req.params.id: an address id, handed out or not
AddressIds == 1..(MaxAddresses + 1)

NextAddress ==
  \/ \E u \in Buyers, flag \in FlagInputs : addUserAddress(u, flag)
  \/ \E u \in Buyers, id \in AddressIds, flag \in FlagInputs : updateUserAddress(u, id, flag)
  \/ \E u \in Buyers, id \in AddressIds : deleteUserAddress(u, id)

\* The address book of a user who starts with no address
SpecAddress == Init /\ [][NextAddress]_vars

---------------------------------------------------------------------------
(* Wishlist handlers *)

\* The product ids a wishlist request may carry, as the strings the client
\* writes: "a1", "b2" and "c3" in lower-case hex, and "A1", the id a1 in upper-case hex
WishInputs == {"a1", "A1", "b2", "c3"}

\* The ObjectId a string is cast to, as id.toString() prints it (lower-case hex)
ObjectIdString(s) == IF s = "A1" THEN "a1" ELSE s

\* user.wishlist.includes(productId): the string is compared with each stored id
Includes(wishlist, productId) == \E i \in DOMAIN wishlist : wishlist[i] = productId

\* user.wishlist.filter(id => id.toString() !== param)
RECURSIVE Filter(_, _)
Filter(wishlist, param) ==
  IF wishlist = <<>> THEN <<>>
  ELSE IF Head(wishlist) # param THEN <<Head(wishlist)>> \o Filter(Tail(wishlist), param)
  ELSE Filter(Tail(wishlist), param)

\* POST /api/users/wishlist
addToWishlist(u, productId) ==
  /\ UserFrame
  /\ IF Includes(users[u].wishlist, productId)
     THEN /\ last' = Response("addToWishlist", u, 0, <<>>, productId, Undefined, 400,
                              "AlreadyInWishlist")
          /\ UNCHANGED users
     ELSE /\ Len(users[u].wishlist) < MaxWishlist
          /\ users' = [users EXCEPT ![u].wishlist = Append(@, ObjectIdString(productId))]
          /\ last' = Response("addToWishlist", u, 0, <<>>, productId, Undefined, 201, "")

\* DELETE /api/users/wishlist/:productId
removeFromWishlist(u, productId) ==
  /\ UserFrame
  /\ users' = [users EXCEPT ![u].wishlist = Filter(@, productId)]
  /\ last' = Response("removeFromWishlist", u, 0, <<>>, productId, Undefined, 200, "")

NextWishlist ==
  \/ \E u \in Buyers, productId \in WishInputs : addToWishlist(u, productId)
  \/ \E u \in Buyers, productId \in WishInputs : removeFromWishlist(u, productId)

\* The wishlist of a user who starts with none
SpecWishlist == Init /\ [][NextWishlist]_vars

---------------------------------------------------------------------------
(* Review documents and their hooks *)

ReviewStatuses == {"pending", "approved", "rejected"}

Reviewers == {"alice", "bob"}

ReviewedProducts == {"p1"}

Review(u, p, rating, status) == [user |-> u, product |-> p, rating |-> rating, status |-> status]

\* $match: { product: productId, status: 'approved' }
Approved(revs, p) == {r \in revs : r.product = p /\ r.status = "approved"}

RECURSIVE SumOfRatings(_)
SumOfRatings(revs) ==
  IF revs = {} THEN 0
  ELSE LET r == CHOOSE x \in revs : TRUE IN r.rating + SumOfRatings(revs \ {r})

\* The statics: the aggregate over the reviews it reads, then findByIdAndUpdate
\* (which changes nothing when the product is gone)
calcAverageRating(revs, prods, p) ==
  LET stats == Approved(revs, p) IN
  IF p \notin DOMAIN prods THEN prods
  ELSE IF stats # {}
  THEN [prods EXCEPT ![p].rating = [num |-> SumOfRatings(stats), den |-> Cardinality(stats)],
                     ![p].numReviews = Cardinality(stats)]
  ELSE [prods EXCEPT ![p].rating = NoRating, ![p].numReviews = 0]

ReviewFrame ==
  /\ before' = products
  /\ UNCHANGED <<orders, restored, categories, nextCategory, users, inflight, credential>>

\* review.save() of a new review or of a stored one of the same user and product
\* (unique index), then post('save'): the recalculation reads the saved collection
saveReview(u, p, rating, status) ==
  /\ ReviewFrame
  /\ reviews' = {r \in reviews : ~(r.user = u /\ r.product = p)} \cup {Review(u, p, rating, status)}
  /\ products' = calcAverageRating(reviews', products, p)
  /\ last' = Response("saveReview", u, 0, <<>>, p, Undefined, 200, "")

\* review.remove(): pre('remove') starts the recalculation and does not wait for
\* it, so its aggregate reads the collection before or after the delete
removeReview(u, p) ==
  /\ ReviewFrame
  /\ \E r \in reviews :
        /\ r.user = u /\ r.product = p
        /\ reviews' = reviews \ {r}
        /\ \E seen \in {reviews, reviews'} : products' = calcAverageRating(seen, products, p)
  /\ last' = Response("removeReview", u, 0, <<>>, p, Undefined, 200, "")

NextReview ==
  \/ \E u \in Reviewers, p \in ReviewedProducts, rating \in 1..MaxRating, s \in ReviewStatuses :
        saveReview(u, p, rating, s)
  \/ \E u \in Reviewers, p \in ReviewedProducts : removeReview(u, p)

\* Reviews of the seeded catalog, none stored at first
SpecReview == Init /\ [][NextReview]_vars

---------------------------------------------------------------------------
(* The admin routes: protect, admin, then the handler *)

\* A token names the user id it was signed for.  "forged" does not verify;
\* "gone" verifies and was signed for a user who is no longer stored.
Tokens == Users \cup {"forged", "gone"}

\* req.headers.authorization: none, another scheme, or Bearer with a token
Headers == {NoHeader, [scheme |-> "Basic", token |-> "root"]} \cup {Bearer(t) : t \in Tokens}

\* jwt.verify(token, JWT_SECRET) does not throw
Verifies(token) == token # "forged"

\* req.user when User.findById finds nothing
NoUser == ""

\* User.findById(decoded.id)
FindUser(id) == IF id \in Users THEN id ELSE NoUser

\* protect: the status it rejects with (0 when it calls next()) and req.user
protect(header) ==
  IF header.scheme = "Bearer"
  THEN IF Verifies(header.token)
       THEN [status |-> 0, err |-> "", user |-> FindUser(header.token)]
       ELSE [status |-> 401, err |-> "TokenFailed", user |-> NoUser]
  ELSE [status |-> 401, err |-> "NoToken", user |-> NoUser]

\* (mutant) any user who resolves passes
adminAnyUser(user) == user # NoUser

\* admin: req.user && req.user.role === 'admin'
admin(user) == user # NoUser /\ Role(user) = "admin"

\* The error handler's answer when a middleware has thrown: no handler ran
Rejected(op, status, err) ==
  /\ last' = Response(op, "", 0, <<>>, "", Undefined, status, err)
  /\ before' = products
  /\ UNCHANGED <<products, orders, restored, categories, nextCategory, users, inflight,
                 reviews, credential>>

\* router.route(...).<method>(protect, admin, handler), the request carrying
\* the header the client holds
Route(op, handler) ==
  LET passed == protect(credential) IN
  IF passed.status # 0 THEN Rejected(op, passed.status, passed.err)
  ELSE IF ~admin(passed.user) THEN Rejected(op, 403, "NotAdmin")
  ELSE handler

\* The client changes the header it sends (logs in, logs out, edits the token)
Present(header) ==
  /\ credential' = header
  /\ UNCHANGED <<products, orders, restored, last, before, categories, nextCategory, users,
                 inflight, reviews>>

\* The id the store gives the product createProduct saves
NewProductId == "p3"

\* req.body of createProduct
NewProductBodies == [category : {1}, price : {1}, stock : {0, 1}]

\* POST /api/products
createProduct(body) ==
  /\ ProductFrame
  /\ UNCHANGED orders
  /\ NewProductId \notin DOMAIN products
  /\ products' =
       [p \in DOMAIN products \cup {NewProductId} |->
          IF p \in DOMAIN products THEN products[p]
          ELSE [stock |-> body.stock, variants |-> <<>>, category |-> body.category,
                price |-> body.price, discount |-> 0, rating |-> NoRating, numReviews |-> 0]]
  /\ last' = Response("createProduct", "", 0, <<>>, NewProductId, Undefined, 201, "")

\* The bodies of the admin's product edits: price and stock
EditBodies ==
  {b \in ProductBodies : b.category = Undefined /\ b.discount = Undefined /\ b.variants = <<>>}

NextAdmin ==
  \/ \E header \in Headers : Present(header)
  \/ \E body \in NewProductBodies : Route("createProduct", createProduct(body))
  \/ \E id \in ProductParams, body \in EditBodies :
        Route("updateProduct", updateProduct(id, body))
  \/ \E id \in {"p2", "p9"} : Route("deleteProduct", deleteProduct(id))
  \/ \E parent \in {NoParent, 1} : Route("createCategory", createCategory(parent))
  \/ \E id \in {2, GhostCategory}, parent \in {Undefined, NoParent, 1} :
        Route("updateCategory", updateCategory(id, parent))
  \/ \E id \in KnownCategoryIds : Route("deleteCategory", deleteCategory(id))

\* The product and category routes behind protect and admin
SpecAdmin == Init /\ [][NextAdmin]_vars

---------------------------------------------------------------------------
(* What the stock-ledger claims speak of, stated on the documents themselves *)

\* The item names a counter of the store: its product exists and, when it names
\* a variant, the product has a variant of that name
HasCounter(prods, item) ==
  /\ item.product \in DOMAIN prods
  /\ item.variant # "" =>
       \E i \in DOMAIN prods[item.product].variants :
          prods[item.product].variants[i].name = item.variant

\* The stock of counter <<p, v>>: the product's own, or that of its variant v
StockOf(prods, p, v) ==
  IF v = "" THEN prods[p].stock
  ELSE LET vs == prods[p].variants
           i == CHOOSE i \in DOMAIN vs :
                  vs[i].name = v /\ \A j \in 1..(i - 1) : vs[j].name # v
       IN  vs[i].stock

Available(prods, item) == StockOf(prods, item.product, item.variant)

OverQuantity(prods, item) ==
  HasCounter(prods, item) /\ item.quantity > Available(prods, item)

\* The total quantity the items request of counter c
RECURSIVE Requested(_, _)
Requested(items, c) ==
  IF items = <<>> THEN 0
  ELSE (IF Head(items).product = c[1] /\ Head(items).variant = c[2]
        THEN Head(items).quantity ELSE 0) + Requested(Tail(items), c)

\* The step is a createOrder request
CreateStep == last'.op = "createOrder"

SomeOverQuantity(prods, items) ==
  \E i \in DOMAIN items : OverQuantity(prods, items[i])

FirstOverQuantity(prods, items) ==
  CHOOSE i \in DOMAIN items :
    OverQuantity(prods, items[i]) /\ \A j \in 1..(i - 1) : ~OverQuantity(prods, items[j])

NothingStored == orders' = orders /\ products' = products

\* C1, as claimed: a createOrder whose list holds an item that asks for more than
\* its counter has fails with InsufficientStock (400), stores no order and
\* changes no counter.
C1_AsClaimed ==
  [][(CreateStep /\ SomeOverQuantity(products, last'.items))
       => (last'.status = 400 /\ last'.err = "InsufficientStock" /\ NothingStored)]_vars

\* C1, amended: such a createOrder always fails, stores no order and changes no
\* counter (those of the items before the failing one included); the failure is
\* InsufficientStock (400) exactly when every item before the first over-quantity
\* item names a counter of the store, and NotFound (404) otherwise.
C1_FailsAndChangesNothing ==
  [][(CreateStep /\ SomeOverQuantity(products, last'.items))
       => LET k == FirstOverQuantity(products, last'.items)
              allFound == \A j \in 1..(k - 1) : HasCounter(products, last'.items[j])
          IN  /\ NothingStored
              /\ allFound => (last'.status = 400 /\ last'.err = "InsufficientStock")
              /\ ~allFound => (last'.status = 404
                               /\ last'.err \in {"ProductNotFound", "VariantNotFound"})]_vars

\* C1 witness: a rejected two-item request whose first item passes its check and
\* whose second asks for more than its counter has.
C1_Witness ==
  /\ last.op = "createOrder" /\ last.status = 400 /\ last.err = "InsufficientStock"
  /\ Len(last.items) = 2
  /\ HasCounter(before, last.items[1]) /\ ~OverQuantity(before, last.items[1])
  /\ OverQuantity(before, last.items[2])
  /\ Available(before, last.items[1]) > 0
  /\ products = before /\ orders = <<>>

AllAvailable(prods, items) ==
  \A i \in DOMAIN items :
     HasCounter(prods, items[i]) /\ items[i].quantity <= Available(prods, items[i])

DebitedExactly(items) ==
  \A c \in Counters :
     StockOf(products', c[1], c[2]) = StockOf(products, c[1], c[2]) - Requested(items, c)

\* C2, as claimed: for any item list in which every item asks for no more than its
\* counter has, createOrder succeeds and every counter goes down by exactly what
\* the list requests of it (nothing, for a counter the list does not name).
C2_AsClaimed ==
  [][(CreateStep /\ AllAvailable(products, last'.items))
       => (last'.status = 201 /\ Len(orders') = Len(orders) + 1
           /\ DebitedExactly(last'.items))]_vars

\* C2, amended: the same for every list of at least one item (several items may
\* name one counter, which then goes down by their total); an empty list is
\* rejected with 400 and changes nothing.
C2_SucceedsAndDebitsExactly ==
  [][(CreateStep /\ AllAvailable(products, last'.items))
       => IF last'.items = <<>>
          THEN last'.status = 400 /\ NothingStored
          ELSE /\ last'.status = 201
               /\ Len(orders') = Len(orders) + 1
               /\ orders'[Len(orders')].items = last'.items
               /\ DebitedExactly(last'.items)]_vars

\* C2 witness: an accepted request of two items against one counter, which went
\* down by both quantities.
C2_Witness ==
  /\ last.op = "createOrder" /\ last.status = 201
  /\ Len(last.items) = 2
  /\ last.items[1].product = last.items[2].product
  /\ last.items[1].variant = last.items[2].variant
  /\ Available(products, last.items[1])
       = Available(before, last.items[1]) - last.items[1].quantity - last.items[2].quantity

\* C3: every product stock and every variant stock is >= 0 after any sequence of
\* createOrder and cancelOrder requests.
C3_StockNeverNegative ==
  \A c \in Counters : StockOf(products, c[1], c[2]) >= 0

\* The step is a cancelOrder request for the order the last request created
CancelRightAfterCreate ==
  /\ last.op = "createOrder" /\ last.status = 201
  /\ last'.op = "cancelOrder" /\ last'.target = last.target

TouchedRestored ==
  \A c \in Counters :
     Requested(orders[last.target].items, c) > 0
       => StockOf(products', c[1], c[2]) = StockOf(before, c[1], c[2])

\* C4, as claimed: cancelOrder of an order right after the createOrder that placed
\* it puts every counter the order touched back to its value before createOrder.
C4_AsClaimed ==
  [][CancelRightAfterCreate => TouchedRestored]_vars

\* C4, amended: the same when the cancelOrder request comes from the order's owner
\* or an admin (and so is accepted); from anyone else it is refused with 403 and
\* restores nothing.
C4_CancelRestores ==
  [][CancelRightAfterCreate
       => IF last'.user = orders[last.target].user \/ Role(last'.user) = "admin"
          THEN last'.status = 200 /\ TouchedRestored
          ELSE last'.status = 403 /\ products' = products]_vars

\* C4 witness: an accepted cancellation of a two-item order that named a variant,
\* after which every counter is back at its initial value.
C4_Witness ==
  /\ last.op = "cancelOrder" /\ last.status = 200
  /\ restored = <<1>>
  /\ Len(orders[1].items) = 2
  /\ orders[1].items[1].variant = "Red"
  /\ products # before

\* The step is an accepted createOrder or cancelOrder; `StepItems` are the items
\* whose counters it moves
StockStep ==
  \/ last'.op = "createOrder" /\ last'.status = 201
  \/ last'.op = "cancelOrder" /\ last'.status = 200

StepItems == IF last'.op = "createOrder" THEN last'.items ELSE orders[last'.target].items

Names(items, p, v) == \E i \in DOMAIN items : items[i].product = p /\ items[i].variant = v

\* C11: in createOrder and in cancelOrder an item that names a variant changes the
\* stock of that variant only, an item that names none the product's own stock
\* only: a product's own stock changes only if an item names the product without
\* a variant, a variant's stock only if an item names that variant, and no
\* variant is added, removed or renamed.
C11_OnlyNamedCounterChanges ==
  [][StockStep
       => \A p \in DOMAIN products :
            /\ p \in DOMAIN products'
            /\ ~Names(StepItems, p, "") => products'[p].stock = products[p].stock
            /\ Len(products'[p].variants) = Len(products[p].variants)
            /\ \A i \in DOMAIN products[p].variants :
                 /\ products'[p].variants[i].name = products[p].variants[i].name
                 /\ ~Names(StepItems, p, products[p].variants[i].name)
                      => products'[p].variants[i].stock = products[p].variants[i].stock]_vars

\* C11 witness: an accepted cancelOrder of an order whose only item names variant
\* Red of p1 put Red's stock up and left p1's own stock and Blue's where they were.
C11_Witness ==
  /\ last.op = "cancelOrder" /\ last.status = 200
  /\ Len(orders[last.target].items) = 1
  /\ orders[last.target].items[1].product = "p1"
  /\ orders[last.target].items[1].variant = "Red"
  /\ StockOf(products, "p1", "Red") > StockOf(before, "p1", "Red")
  /\ products["p1"].stock = before["p1"].stock
  /\ StockOf(products, "p1", "Blue") = StockOf(before, "p1", "Blue")

Unresolved(prods, item) == ~HasCounter(prods, item)

FirstUnresolved(prods, items) ==
  CHOOSE i \in DOMAIN items :
    Unresolved(prods, items[i]) /\ \A j \in 1..(i - 1) : ~Unresolved(prods, items[j])

\* C12, as claimed: a createOrder whose list holds an item whose product id does
\* not resolve, or that names a variant its product does not have, fails with
\* NotFound (404), stores no order and changes no counter.
C12_AsClaimed ==
  [][(CreateStep /\ \E i \in DOMAIN last'.items : Unresolved(products, last'.items[i]))
       => (last'.status = 404 /\ NothingStored)]_vars

\* C12, amended: such a createOrder always fails, stores no order and changes no
\* counter; the failure is NotFound (404) exactly when no item before the first
\* unresolved one asks for more than its counter has, and InsufficientStock (400)
\* otherwise.
C12_FailsAndChangesNothing ==
  [][(CreateStep /\ \E i \in DOMAIN last'.items : Unresolved(products, last'.items[i]))
       => LET k == FirstUnresolved(products, last'.items)
              inStock == \A j \in 1..(k - 1) : ~OverQuantity(products, last'.items[j])
          IN  /\ NothingStored
              /\ inStock => (last'.status = 404
                             /\ last'.err = IF last'.items[k].product \in DOMAIN products
                                            THEN "VariantNotFound" ELSE "ProductNotFound")
              /\ ~inStock => (last'.status = 400 /\ last'.err = "InsufficientStock")]_vars

\* C12 witness: a rejected two-item request whose first item passes its check
\* against a stocked counter and whose second names a variant p1 does not have.
C12_Witness ==
  /\ last.op = "createOrder" /\ last.status = 404 /\ last.err = "VariantNotFound"
  /\ Len(last.items) = 2
  /\ HasCounter(before, last.items[1]) /\ ~OverQuantity(before, last.items[1])
  /\ last.items[2].product \in DOMAIN before /\ Unresolved(before, last.items[2])
  /\ products = before /\ orders = <<>>

---------------------------------------------------------------------------
(* The order lifecycle *)

TerminalStatuses == {"delivered", "cancelled"}

\* C9: once an order's status is delivered or cancelled, no later order request
\* changes it.
C9_TerminalStatusIsFinal ==
  [][\A o \in DOMAIN orders :
       orders[o].status \in TerminalStatuses => orders'[o].status = orders[o].status]_vars

\* C10: over any sequence of order requests, cancelOrder runs its stock
\* restoration at most once per order.
C10_RestoredAtMostOnce ==
  \A o \in DOMAIN orders : restored[o] <= 1

\* C13: cancelOrder of a stored order whose status is neither pending nor
\* processing fails with 400 and leaves the order's status, the order and every
\* stock counter as they are.
C13_LateCancelRefused ==
  [][(last'.op = "cancelOrder" /\ last'.target \in DOMAIN orders
        /\ orders[last'.target].status \notin {"pending", "processing"})
       => (last'.status = 400 /\ last'.err = "NotCancellable"
           /\ orders' = orders /\ products' = products /\ restored' = restored)]_vars

\* C13 witness: the owner's cancelOrder of a delivered order, whose items are
\* still debited, was refused and the order is still delivered.
C13_Witness ==
  /\ last.op = "cancelOrder" /\ last.status = 400 /\ last.err = "NotCancellable"
  /\ last.target \in DOMAIN orders
  /\ orders[last.target].status = "delivered"
  /\ last.user = orders[last.target].user
  /\ restored[last.target] = 0
  /\ products = before /\ products # Catalog(MaxStock, 1, 1)

\* C26: cancelOrder of a pending or processing order by a user who is neither
\* its owner nor an admin fails with 403 and leaves the order, its status and
\* every stock counter as they are.
C26_StrangerCancelRefused ==
  [][(last'.op = "cancelOrder" /\ last'.target \in DOMAIN orders
        /\ orders[last'.target].status \in {"pending", "processing"}
        /\ last'.user # orders[last'.target].user /\ Role(last'.user) # "admin")
       => (last'.status = 403 /\ last'.err = "NotAuthorized"
           /\ orders' = orders /\ products' = products /\ restored' = restored)]_vars

\* C26 witness: bob's cancelOrder of alice's paid (processing) order, whose items
\* are debited, was refused with 403 and the order is still processing.
C26_Witness ==
  /\ last.op = "cancelOrder" /\ last.status = 403 /\ last.user = "bob"
  /\ last.target \in DOMAIN orders
  /\ orders[last.target].user = "alice"
  /\ orders[last.target].status = "processing"
  /\ restored[last.target] = 0
  /\ products = before /\ products # Catalog(MaxStock, 1, 1)

\* The total quantity the orders that are not cancelled request of counter c
RECURSIVE OrderedOf(_, _)
OrderedOf(os, c) ==
  IF os = <<>> THEN 0
  ELSE (IF Head(os).status # "cancelled" THEN Requested(Head(os).items, c) ELSE 0)
         + OrderedOf(Tail(os), c)

\* C17: with no product edits, after any sequence of createOrder,
\* updateOrderToPaid, updateOrderToDelivered, updateOrderStatus and cancelOrder
\* requests, every counter's stock plus the quantity ordered of it in the orders
\* that are not cancelled equals its initial stock.
C17_StockConserved ==
  \A c \in Counters :
     StockOf(products, c[1], c[2]) + OrderedOf(orders, c)
       = StockOf(Catalog(MaxStock, 1, 1), c[1], c[2])

---------------------------------------------------------------------------
(* The category hierarchy *)

\* The ancestors of c: its parent, its parent's parent, ... (n hops at most)
RECURSIVE Up(_, _, _)
Up(cats, c, n) ==
  IF n = 0 \/ c \notin DOMAIN cats THEN {}
  ELSE IF cats[c].parent = NoParent THEN {}
  ELSE {cats[c].parent} \cup Up(cats, cats[c].parent, n - 1)

AncestorsOf(cats, c) == Up(cats, c, Cardinality(DOMAIN cats) + 1)

Acyclic(cats) == \A c \in DOMAIN cats : c \notin AncestorsOf(cats, c)

UpdateStep == last'.op = "updateCategory" /\ last'.target \in DOMAIN categories

OnlyParentOf(id, parent) ==
  /\ DOMAIN categories' = DOMAIN categories
  /\ categories'[id].parent = parent
  /\ \A c \in DOMAIN categories \ {id} : categories'[c] = categories[c]

\* C6: on an acyclic graph, updateCategory of a stored category with a proposed
\* parent that is neither null nor the category itself fails with 400 (circular
\* reference) and leaves the graph as it is exactly when the category is an
\* ancestor of the proposed parent; otherwise it succeeds and stores the parent.
C6_RefusedExactlyWhenAncestor ==
  [][(UpdateStep /\ Acyclic(categories)
        /\ last'.parent \notin {Undefined, NoParent, last'.target})
       => IF last'.target \in AncestorsOf(categories, last'.parent)
          THEN last'.status = 400 /\ last'.err = "Circular" /\ categories' = categories
          ELSE last'.status = 200 /\ OnlyParentOf(last'.target, last'.parent)]_vars

\* C6 witness: with the chain 1 <- 2 <- 3 stored, moving 1 under 3 was refused.
C6_Witness ==
  /\ last.op = "updateCategory" /\ last.target = 1 /\ last.parent = 3
  /\ last.status = 400 /\ last.err = "Circular"
  /\ {1, 2, 3} \subseteq DOMAIN categories
  /\ categories[3].parent = 2 /\ categories[2].parent = 1
  /\ categories[1].parent = NoParent

C8_DeletionGuard ==
  [][(last'.op = "deleteCategory" /\ last'.target \in DOMAIN categories)
       => LET id == last'.target
          IN  IF \E c \in DOMAIN categories : categories[c].parent = id
              THEN last'.status = 400 /\ last'.err = "HasChildren"
                   /\ categories' = categories
              ELSE IF \E p \in DOMAIN products : products[p].category = id
              THEN last'.status = 400 /\ last'.err = "HasProducts"
                   /\ categories' = categories
              ELSE /\ last'.status = 200
                   /\ DOMAIN categories' = DOMAIN categories \ {id}
                   /\ \A c \in DOMAIN categories' : categories'[c] = categories[c]]_vars

\* C8 witness: after a childless, product-free category was removed, deleting a
\* childless category that a product references was refused with HasProducts.
C8_Witness ==
  /\ last.op = "deleteCategory" /\ last.status = 400 /\ last.err = "HasProducts"
  /\ last.target \in DOMAIN categories
  /\ ~\E c \in DOMAIN categories : categories[c].parent = last.target
  /\ Cardinality(DOMAIN categories) < nextCategory

\* C24: after any sequence of createCategory, updateCategory and deleteCategory
\* requests, one at a time, every parent reference that is not null names a stored
\* category.
C24_ParentsResolve ==
  \A c \in DOMAIN categories :
     categories[c].parent # NoParent => categories[c].parent \in DOMAIN categories

\* The walk of the request in slot A has made no more lookups than the proposed
\* parent has levels above and including it
WithinDepth ==
  LET f == inflight["A"]
  IN  f.i <= (IF Truthy(f.parent) THEN 1 + Cardinality(AncestorsOf(categories, f.parent))
              ELSE 0)

\* C22: on every acyclic stored graph the ancestor walk of updateCategory
\* terminates (the request is answered), after no more lookups than the depth of
\* the proposed parent, at a null parent, at an id that does not resolve, or at
\* the category's own id (and then with the circular-reference error).
C22_WalkEndsWithinDepth ==
  Acyclic(categories)
    => /\ <>(inflight["A"].pc = "done")
       /\ [](WithinDepth
             /\ (inflight["A"].err = "Circular"
                  => inflight["A"].target \in AncestorsOf(categories, inflight["A"].parent)))

\* C22 witness: on the graph 1 <- 2 with 3 on its own, moving 3 under 2 was
\* accepted after two lookups, the depth of 2.
C22_Witness ==
  /\ inflight["A"].pc = "done" /\ inflight["A"].status = 200
  /\ inflight["A"].target = 3 /\ inflight["A"].parent = 2
  /\ inflight["A"].i = 2
  /\ categories[2].parent = 1 /\ categories[1].parent = NoParent
  /\ categories[3].parent = 2

\* C23: the ancestor walk enforces a maximum depth on every stored graph, a
\* graph with a cycle that does not pass through the category included: it never
\* makes more lookups than the tree has categories plus one.
C23_WalkDepthBounded ==
  \A r \in Slots :
     inflight[r].op = "updateCategory"
       => inflight[r].i <= Cardinality(DOMAIN categories) + 1

---------------------------------------------------------------------------
(* The address book *)

\* C15: after any sequence of addUserAddress, updateUserAddress and
\* deleteUserAddress requests of a user who starts with no address, exactly one
\* address has isDefault = true whenever the list is not empty.
C15_ExactlyOneDefault ==
  \A u \in DOMAIN users :
     users[u].addresses # <<>>
       => Cardinality({i \in DOMAIN users[u].addresses : users[u].addresses[i].isDefault}) = 1

---------------------------------------------------------------------------
(* Orders and the catalog *)

\* C14: updateProduct (a change of price or discount included) and deleteProduct
\* leave every stored order as it is: the unit prices an order holds are those
\* recorded when createOrder stored it.
C14_OrdersUntouched ==
  [][last'.op \in {"updateProduct", "deleteProduct"} => orders' = orders]_vars

\* C14 witness: a product was given a new price after an order was placed for it
\* at the old one, and the order still holds the old price.
C14_Witness ==
  /\ last.op = "updateProduct" /\ last.status = 200
  /\ Len(orders) = 1
  /\ orders[1].items[1].product = last.arg
  /\ orders[1].items[1].price = before[last.arg].price
  /\ products[last.arg].price # before[last.arg].price

---------------------------------------------------------------------------
(* Requests in flight at once *)

DocStock(doc, item) ==
  IF item.variant = "" THEN doc.stock
  ELSE doc.variants[FindVariant(doc.variants, item.variant)].stock

\* C16: createOrder has no lock, version check or transaction: a request that has
\* passed its checks is never refused afterwards, and each save of its second
\* loop stores what the request read of the counter less the quantity, whatever
\* the counter holds by then.  (Two requests for one counter can so both succeed
\* with a combined quantity above the stock: the witness.)
C16_NothingGuardsTheSave ==
  [][\A r \in Slots :
       (inflight[r].op = "createOrder" /\ inflight[r].pc \in {"saveOrder", "fetch", "save"})
         => /\ inflight'[r].status \in {0, 201}
            /\ (inflight[r].pc = "save" /\ inflight'[r] # inflight[r])
                 => LET item == inflight[r].items[inflight[r].i]
                    IN  StockOf(products', item.product, item.variant)
                          = DocStock(inflight[r].doc, item) - item.quantity]_vars

\* C16 witness: both requests named p1's own stock, each asked for no more than
\* the 2 in stock, together for more, and both were answered 201.
C16_Witness ==
  /\ \A r \in Slots :
        /\ inflight[r].op = "createOrder" /\ inflight[r].pc = "done"
        /\ inflight[r].status = 201
        /\ inflight[r].items[1].product = "p1" /\ inflight[r].items[1].variant = ""
  /\ inflight["A"].items[1].quantity + inflight["B"].items[1].quantity
       > before["p1"].stock
  /\ Len(orders) = 2

\* C18: when a product save fails while createOrder applies its decrements, the
\* request fails, the items before the failing one stay debited, the failing one
\* and those after it are not debited, and the order saved before the loop stays.
C18_NothingRolledBack ==
  \A r \in Slots :
     inflight[r].err = "SaveFailed"
       => LET f == inflight[r]
          IN  /\ f.pc = "done" /\ f.status = 500
              /\ products = DebitAll(before, SubSeq(f.items, 1, f.i - 1), 1)
              /\ f.target \in DOMAIN orders
              /\ orders[f.target].items = f.items

\* C18 witness: the save of the second of two items failed; the first item's
\* counter is debited, the second's is not, and the order is stored.
C18_Witness ==
  /\ inflight["A"].err = "SaveFailed" /\ inflight["A"].i = 2
  /\ Len(inflight["A"].items) = 2
  /\ Len(orders) = 1
  /\ LET one == inflight["A"].items[1]
         two == inflight["A"].items[2]
     IN  /\ <<one.product, one.variant>> # <<two.product, two.variant>>
         /\ Available(products, one) = Available(before, one) - one.quantity
         /\ Available(products, two) = Available(before, two)

\* C19: two cancelOrder requests for one pending order, however their steps
\* interleave, credit each counter at most once: no counter ends above its value
\* when the requests arrived plus the quantity the order holds of it.
C19_CreditedAtMostOnce ==
  \A c \in Counters :
     StockOf(products, c[1], c[2])
       <= StockOf(before, c[1], c[2]) + Requested(orders[1].items, c)

\* C20: two updateCategory requests, however their steps interleave, never leave
\* a category that is its own ancestor.
C20_RaceKeepsAcyclic ==
  \A c \in DOMAIN categories :
     \A n \in 1..MaxCategories : c \notin Up(categories, c, n)

\* What validation says of one item, read off the documents: "" when it passes
Verdict(prods, item) ==
  IF ~HasCounter(prods, item)
  THEN (IF item.product \in DOMAIN prods THEN "VariantNotFound" ELSE "ProductNotFound")
  ELSE IF item.quantity > Available(prods, item) THEN "InsufficientStock"
  ELSE ""

\* The counters stand where the first n items' debits leave them
DebitedUpTo(items, n) ==
  \A c \in Counters :
     StockOf(products, c[1], c[2])
       = StockOf(before, c[1], c[2]) - Requested(SubSeq(items, 1, n), c)

\* C21: createOrder validates the items in the order supplied and stops at the
\* first that fails: a request refused by validation carries the error of its
\* lowest-index failing item, every item before it passing; and when all pass,
\* the decrements are saved one item at a time in the order supplied (at the
\* i-th fetch or save exactly the first i - 1 items are debited, and after the
\* last save all of them).
C21_InOrderFirstFailureWins ==
  \A r \in Slots :
     LET f == inflight[r]
     IN  f.op = "createOrder" =>
           /\ (f.pc = "done" /\ f.err \in {"ProductNotFound", "VariantNotFound",
                                           "InsufficientStock"})
                => /\ f.i \in DOMAIN f.items
                   /\ Verdict(before, f.items[f.i]) = f.err
                   /\ f.status = (IF f.err = "InsufficientStock" THEN 400 ELSE 404)
                   /\ \A j \in 1..(f.i - 1) : Verdict(before, f.items[j]) = ""
                   /\ products = before /\ orders = <<>>
           /\ f.pc \in {"fetch", "save"} => DebitedUpTo(f.items, f.i - 1)
           /\ (f.pc = "done" /\ f.status = 201) => DebitedUpTo(f.items, Len(f.items))

\* C21 witness: a request of two items for different counters stands at the save
\* of its second item: the first item's counter is debited, the second's not yet.
C21_Witness ==
  LET f == inflight["A"]
  IN  /\ f.op = "createOrder" /\ f.pc = "save" /\ f.i = 2 /\ Len(f.items) = 2
      /\ <<f.items[1].product, f.items[1].variant>>
           # <<f.items[2].product, f.items[2].variant>>
      /\ Available(products, f.items[1]) = Available(before, f.items[1]) - f.items[1].quantity
      /\ Available(products, f.items[2]) = Available(before, f.items[2])

---------------------------------------------------------------------------
(* The wishlist *)

\* C27: after any sequence of addToWishlist and removeFromWishlist requests, one
\* at a time, no product id is in a user's wishlist twice.
C27_NoIdTwice ==
  \A u \in DOMAIN users :
     \A i \in DOMAIN users[u].wishlist, j \in DOMAIN users[u].wishlist :
        i # j => users[u].wishlist[i] # users[u].wishlist[j]

---------------------------------------------------------------------------
(* Review statistics *)

\* C28: after a review has been saved or removed and the hook's recalculation
\* has completed, the product's numReviews is the number of stored approved
\* reviews of the product, and rating and numReviews are both 0 when there is none.
C28_StatsMatchApproved ==
  last.op \in {"saveReview", "removeReview"} =>
    /\ last.arg \in DOMAIN products
    /\ products[last.arg].numReviews = Cardinality(Approved(reviews, last.arg))
    /\ Approved(reviews, last.arg) = {} =>
          /\ products[last.arg].rating = NoRating
          /\ products[last.arg].numReviews = 0

---------------------------------------------------------------------------
(* The admin routes *)

AdminOps ==
  {"createProduct", "updateProduct", "deleteProduct",
   "createCategory", "updateCategory", "deleteCategory"}

\* The header is a Bearer token that verifies and resolves to a stored admin
HoldsAdminToken ==
  /\ credential.scheme = "Bearer"
  /\ credential.token # "forged"
  /\ credential.token \in Users
  /\ Role(credential.token) = "admin"

\* The status the claim gives a request without such a token
RefusalStatus ==
  IF credential.scheme # "Bearer" \/ credential.token = "forged" THEN 401 ELSE 403

\* C25: a request to one of the six product and category admin routes runs its
\* handler only when it carries a Bearer token that verifies and resolves to a
\* stored user whose role is admin; every other request is answered 401 (token
\* missing or invalid) or 403 (user absent or not admin) and changes no product
\* or category document.
C25_AdminRoutesGuarded ==
  [][ credential' = credential =>
        /\ last'.op \in AdminOps
        /\ IF HoldsAdminToken
           THEN last'.status \notin {401, 403}
           ELSE /\ last'.status = RefusalStatus
                /\ products' = products
                /\ categories' = categories ]_vars

\* A customer's verified token is refused with 403 after the admin has changed
\* the catalog through the same routes
C25_Witness ==
  /\ credential = Bearer("alice")
  /\ last.op = "deleteProduct"
  /\ last.status = 403
  /\ "p2" \in DOMAIN products
  /\ NewProductId \in DOMAIN products
  /\ nextCategory > 2

====
